---- MODULE Spec2Model ----
(***************************************************************************)
(* Model of config_manager.py: ConfigManager with its file templates, item *)
(* templates, the bound destinations (target owners and direct entities)   *)
(* and the JSON files on disk.                                             *)
(*                                                                         *)
(* Python values are tagged records so that None, integers and strings     *)
(* stay distinct and comparable: None, IntId(1), StrId("1").  A dict is a  *)
(* sequence of entries in insertion order.                                 *)
(***************************************************************************)
EXTENDS Integers, Sequences, FiniteSets, TLC

VARIABLES
    file_templates,  \* ConfigManager._file_templates: dict FILE_ID -> ConfigFileTemplate
    finalized,       \* ConfigManager._finalized
    dest,            \* the bound destinations: owner attribute/key values and entity states
    disk,            \* the file system: path -> JSON text of the file, or None when absent
    last,            \* the most recent call: operation, outcome, callbacks invoked, warnings
    made             \* calls made so far: registrations, load/save calls, outside writes

vars == <<file_templates, finalized, dest, disk, last, made>>

-----------------------------------------------------------------------------
(* Bounds of the model *)

MaxBuild == 3    \* add_file_path and add_items calls in one run
MaxRun == 2      \* load and save calls in one run
MaxEnv == 1      \* writes of the application or of an editor in one run
MaxVal == 1      \* objects hold a value in 0..MaxVal

-----------------------------------------------------------------------------
(* Python values *)

None == [tag |-> "none"]
IntId(n) == [tag |-> "int", val |-> n]
StrId(s) == [tag |-> "str", val |-> s]

\* FILE_ID = str | int, ITEM_ID = str | int
FILE_ID == {IntId(1), StrId("a")}
ITEM_ID == {IntId(1), StrId("1"), StrId("v")}
Paths == {StrId("p"), StrId("q")}

\* the path the caller keeps each file at
PathOf(file_id) == IF file_id = IntId(1) THEN StrId("p") ELSE StrId("q")

\* the paths a caller hands to add_file_path for file_id: its own path the
\* first time, any path once the file has one
CallerPaths(fts, file_id) ==
    IF \E i \in 1..Len(fts) : fts[i].id = file_id /\ fts[i].file_path # None
    THEN Paths
    ELSE {PathOf(file_id)}

\* A live object held by a destination, and the JSON_OBJ it serializes to.
Obj(n) == [tag |-> "obj", val |-> n]
Json(n) == [tag |-> "json", v |-> n]
\* an object that does not inherit from I_ConfigSerializable
Plain == [tag |-> "plain", val |-> 0]
Values == 0..MaxVal

\* ConfigTarget(obj, attr, factory): the owner is a dict or a plain object.
\* I_ConfigItem: a direct entity.  slot names the destination it denotes.
DictTarget == [kind |-> "ConfigTarget", obj_type |-> "dict", slot |-> "D.x"]
ObjTarget == [kind |-> "ConfigTarget", obj_type |-> "object", slot |-> "O.x"]
Entity == [kind |-> "I_ConfigItem", obj_type |-> "entity", slot |-> "E"]
TargetSlots == {"D.x", "O.x"}
EntitySlots == {"E"}
Slots == TargetSlots \cup EntitySlots

\* the destination whose callbacks raise during a call ("none": no callback raises)
Faults == {"none"} \cup Slots

\* ConfigItemTemplate(target, default_args)
ConfigItemTemplate(target, default_args) ==
    [target |-> target, default_args |-> default_args]

\* ConfigFileTemplate(file_path, file_required, item_templates), keyed by id
ConfigFileTemplate(file_id, file_path, file_required, item_templates) ==
    [id |-> file_id, file_path |-> file_path, file_required |-> file_required,
     item_templates |-> item_templates]

\* CONFIG_ITEM_LIKE values a caller may hand to add_items
TemplateLike(target, args) ==
    [shape |-> "ConfigItemTemplate", target |-> target, args_ok |-> TRUE, args |-> args]
BareLike(target) == [shape |-> "bare", target |-> target, args_ok |-> TRUE, args |-> <<>>]
TupleLike(target, args) == [shape |-> "tuple", target |-> target, args_ok |-> TRUE, args |-> args]
BadTupleLike(target) == [shape |-> "tuple", target |-> target, args_ok |-> FALSE, args |-> <<>>]
UnsupportedLike == [shape |-> "unsupported", target |-> None, args_ok |-> TRUE, args |-> <<>>]

\* the dicts handed to add_items, in iteration order: two targets under string
\* ids; a target under an integer id beside a direct entity under its string
\* form; an accepted entry, a rejected one and an acceptable one after it; a
\* target under an integer id followed by an entry of an unsupported type
Entry(item_id, item_like) == [id |-> item_id, item_like |-> item_like]
ItemBatches ==
    { <<Entry(StrId("v"), BareLike(DictTarget)), Entry(StrId("1"), TupleLike(ObjTarget, <<MaxVal>>))>>,
      <<Entry(IntId(1), TemplateLike(DictTarget, <<>>)), Entry(StrId("1"), BareLike(Entity))>>,
      <<Entry(StrId("1"), BareLike(Entity)), Entry(StrId("v"), BadTupleLike(ObjTarget)),
        Entry(IntId(1), BareLike(DictTarget))>>,
      <<Entry(IntId(1), BareLike(DictTarget)), Entry(StrId("v"), UnsupportedLike)>> }

-----------------------------------------------------------------------------
(* dict helpers *)

\* position of the entry with key k in a dict (0 when absent)
RECURSIVE IndexFrom(_, _, _)
IndexFrom(d, k, i) ==
    IF i > Len(d) THEN 0
    ELSE IF d[i].id = k THEN i
    ELSE IndexFrom(d, k, i + 1)

IndexOf(d, k) == IndexFrom(d, k, 1)
Keys(d) == {d[i].id : i \in 1..Len(d)}
HasKey(d, k) == IndexOf(d, k) # 0

\* dict.setdefault(k, v): the dict after the call (a new key goes last)
SetDefault(d, k, v) == IF HasKey(d, k) THEN d ELSE Append(d, v)

\* what a call did: the error it raised ("" when it returned), the file ids a
\* failed finalize_layout reports, the callbacks invoked in order, the paths
\* looked up or opened, the warnings logged; was_finalized is the flag as the
\* call found it
NoCall == [op |-> "none", file_id |-> None, err |-> "", reported |-> {},
           calls |-> <<>>, touched |-> {}, warnings |-> 0, was_finalized |-> FALSE]
Call(op, file_id, err) ==
    [NoCall EXCEPT !.op = op, !.file_id = file_id, !.err = err, !.was_finalized = finalized]

-----------------------------------------------------------------------------
(* ConfigManager.add_file_path *)

\* mutant: the path is assigned without the set-once check
AddFilePathReassign(fts, file_id, file_path, file_required) ==
    LET fts1 == SetDefault(fts, file_id, ConfigFileTemplate(file_id, None, FALSE, <<>>))
        i == IndexOf(fts1, file_id)
    IN  [fts |-> [fts1 EXCEPT ![i].file_path = file_path,
                               ![i].file_required = file_required],
         err |-> ""]

\* mutant: the path is stored in a fresh template, which replaces the one the
\* file had
AddFilePathFreshTemplate(fts, file_id, file_path, file_required) ==
    LET fts1 == SetDefault(fts, file_id, ConfigFileTemplate(file_id, None, FALSE, <<>>))
        i == IndexOf(fts1, file_id)
    IN  IF fts1[i].file_path # None
        THEN [fts |-> fts1, err |-> "path assigned more than once"]
        ELSE [fts |-> [fts1 EXCEPT ![i] =
                          ConfigFileTemplate(file_id, file_path, file_required, <<>>)],
              err |-> ""]

\* the file templates after add_file_path, and the error raised ("" when none)
AddFilePath(fts, file_id, file_path, file_required) ==
    LET fts1 == SetDefault(fts, file_id, ConfigFileTemplate(file_id, None, FALSE, <<>>))
        i == IndexOf(fts1, file_id)
    IN  IF fts1[i].file_path # None
        THEN [fts |-> fts1, err |-> "path assigned more than once"]
        ELSE [fts |-> [fts1 EXCEPT ![i].file_path = file_path,
                                   ![i].file_required = file_required],
              err |-> ""]

\* mutant: the flag is reset after the set-once check, so a rejected call keeps it
add_file_path_ResetAfterCheck(file_id, file_path, file_required) ==
    /\ made.build < MaxBuild
    /\ LET r == AddFilePath(file_templates, file_id, file_path, file_required)
       IN  /\ file_templates' = r.fts
           /\ finalized' = (finalized /\ r.err # "")
           /\ last' = Call("add_file_path", file_id, r.err)
    /\ made' = [made EXCEPT !.build = @ + 1]
    /\ UNCHANGED <<dest, disk>>

add_file_path(file_id, file_path, file_required) ==
    /\ made.build < MaxBuild
    /\ LET r == AddFilePath(file_templates, file_id, file_path, file_required)
       IN  /\ file_templates' = r.fts
           /\ finalized' = FALSE
           /\ last' = Call("add_file_path", file_id, r.err)
    /\ made' = [made EXCEPT !.build = @ + 1]
    /\ UNCHANGED <<dest, disk>>

-----------------------------------------------------------------------------
(* ConfigManager.add_items *)

\* the item template an accepted CONFIG_ITEM_LIKE is stored as, or the error
ItemTemplateOf(item_like) ==
    IF item_like.shape = "ConfigItemTemplate"
    THEN [err |-> "", tmpl |-> ConfigItemTemplate(item_like.target, item_like.args)]
    ELSE IF item_like.shape = "bare"
    THEN [err |-> "", tmpl |-> ConfigItemTemplate(item_like.target, <<>>)]
    ELSE IF item_like.shape = "tuple"
    THEN IF ~item_like.args_ok
         THEN [err |-> "default args must be a list", tmpl |-> None]
         ELSE [err |-> "", tmpl |-> ConfigItemTemplate(item_like.target, item_like.args)]
    ELSE [err |-> "unsupported CONFIG_ITEM_LIKE", tmpl |-> None]

\* mutant: an id that is already registered is bound to the new entry
RECURSIVE AddItemsLoopOverwrite(_, _, _)
AddItemsLoopOverwrite(item_templates, items, i) ==
    IF i > Len(items) THEN [item_templates |-> item_templates, err |-> ""]
    ELSE LET t == ItemTemplateOf(items[i].item_like)
             e == [id |-> items[i].id, tmpl |-> t.tmpl]
         IN  IF t.err # "" THEN [item_templates |-> item_templates, err |-> t.err]
             ELSE IF HasKey(item_templates, items[i].id)
             THEN AddItemsLoopOverwrite(
                     [item_templates EXCEPT ![IndexOf(item_templates, items[i].id)] = e],
                     items, i + 1)
             ELSE AddItemsLoopOverwrite(Append(item_templates, e), items, i + 1)

\* mutant: a batch with a rejected entry registers none of its entries
RECURSIVE AddItemsLoopScan(_, _, _)
AddItemsLoopScan(item_templates, items, i) ==
    IF i > Len(items) THEN [item_templates |-> item_templates, err |-> ""]
    ELSE IF HasKey(item_templates, items[i].id)
    THEN [item_templates |-> item_templates, err |-> "item added multiple times"]
    ELSE LET t == ItemTemplateOf(items[i].item_like)
         IN  IF t.err # "" THEN [item_templates |-> item_templates, err |-> t.err]
             ELSE AddItemsLoopScan(
                     Append(item_templates, [id |-> items[i].id, tmpl |-> t.tmpl]),
                     items, i + 1)

AddItemsLoopAllOrNothing(item_templates, items, i) ==
    LET r == AddItemsLoopScan(item_templates, items, i)
    IN  IF r.err # "" THEN [item_templates |-> item_templates, err |-> r.err] ELSE r

\* the loop over items.items(): stops at the first rejected entry
RECURSIVE AddItemsLoop(_, _, _)
AddItemsLoop(item_templates, items, i) ==
    IF i > Len(items) THEN [item_templates |-> item_templates, err |-> ""]
    ELSE IF HasKey(item_templates, items[i].id)
    THEN [item_templates |-> item_templates, err |-> "item added multiple times"]
    ELSE LET t == ItemTemplateOf(items[i].item_like)
         IN  IF t.err # "" THEN [item_templates |-> item_templates, err |-> t.err]
             ELSE AddItemsLoop(
                     Append(item_templates, [id |-> items[i].id, tmpl |-> t.tmpl]),
                     items, i + 1)

\* mutant: a rejected batch leaves the file templates as they were
AddItemsNoTemplateOnFailure(fts, file_id, items) ==
    LET fts1 == SetDefault(fts, file_id, ConfigFileTemplate(file_id, None, FALSE, <<>>))
        i == IndexOf(fts1, file_id)
        r == AddItemsLoop(fts1[i].item_templates, items, 1)
    IN  IF r.err # "" THEN [fts |-> fts, err |-> r.err]
        ELSE [fts |-> [fts1 EXCEPT ![i].item_templates = r.item_templates], err |-> r.err]

AddItems(fts, file_id, items) ==
    LET fts1 == SetDefault(fts, file_id, ConfigFileTemplate(file_id, None, FALSE, <<>>))
        i == IndexOf(fts1, file_id)
        r == AddItemsLoop(fts1[i].item_templates, items, 1)
    IN  [fts |-> [fts1 EXCEPT ![i].item_templates = r.item_templates], err |-> r.err]

add_items(file_id, items) ==
    /\ made.build < MaxBuild
    /\ LET r == AddItems(file_templates, file_id, items)
       IN  /\ file_templates' = r.fts
           /\ finalized' = FALSE
           /\ last' = Call("add_items", file_id, r.err)
    /\ made' = [made EXCEPT !.build = @ + 1]
    /\ UNCHANGED <<dest, disk>>

-----------------------------------------------------------------------------
(* ConfigManager.finalize_layout *)

\* mutant: only the first file without a path is reported
MissingPathsFirstOnly(fts) ==
    LET idx == {j \in 1..Len(fts) : fts[j].file_path = None}
    IN  {fts[i].id : i \in {j \in idx : \A k \in idx : j <= k}}

\* query_result: the file ids whose template has no path
MissingPaths(fts) == {fts[i].id : i \in {j \in 1..Len(fts) : fts[j].file_path = None}}

\* mutant: only the first registered file is looked at
FinalizeOkFirstFile(fts) == Len(fts) = 0 \/ fts[1].file_path # None

\* len(query_result) > 0 raises
FinalizeOk(fts) == MissingPaths(fts) = {}

finalize_layout ==
    /\ IF FinalizeOk(file_templates)
       THEN /\ finalized' = TRUE
            /\ last' = Call("finalize_layout", None, "")
       ELSE /\ finalized' = finalized
            /\ last' = [Call("finalize_layout", None, "missing file paths")
                           EXCEPT !.reported = MissingPaths(file_templates)]
    /\ UNCHANGED <<file_templates, dest, disk, made>>

-----------------------------------------------------------------------------
(* The callbacks a caller supplies, and the JSON collaborator *)

\* I_ConfigItemFactory.config_deserialize(item_id, json_obj, *args): builds the
\* object from its JSON form, or the default (the first default argument, else
\* 0) when json_obj is None
config_deserialize(item_id, json_obj, args) ==
    IF json_obj # None THEN Obj(json_obj.v)
    ELSE IF Len(args) > 0 THEN Obj(args[1])
    ELSE Obj(0)

\* I_ConfigSerializable.config_serialize(item_id): the JSON form of the object
config_serialize(obj, item_id) == Json(obj.val)

\* I_ConfigDeserializable.config_reconfig(item_id, json_obj, *args): the
\* entity's state after it reconfigured itself
config_reconfig(obj, item_id, json_obj, args) == Obj(json_obj.v)

\* json.dump writes the keys of an object as strings: 1 becomes "1"
JsonKey(k) == IF k.tag = "int" THEN StrId(ToString(k.val)) ELSE k

\* json.dump(json_data): the text written; the members of general_items in
\* insertion order, every key in its string form; properties.id keeps its type
JsonDump(json_data) ==
    [properties |-> json_data.properties,
     general_items |-> [i \in 1..Len(json_data.general_items) |->
                           [id |-> JsonKey(json_data.general_items[i].id),
                            val |-> json_data.general_items[i].val]]]

\* the last member of the text with key k (0 when there is none)
RECURSIVE LastIndexFrom(_, _, _)
LastIndexFrom(members, k, i) ==
    IF i = 0 THEN 0
    ELSE IF members[i].id = k THEN i
    ELSE LastIndexFrom(members, k, i - 1)

\* json.load builds a dict: a repeated key keeps its first position and its
\* last value
RECURSIVE JsonMembers(_, _, _)
JsonMembers(members, i, acc) ==
    IF i > Len(members) THEN acc
    ELSE IF HasKey(acc, members[i].id) THEN JsonMembers(members, i + 1, acc)
    ELSE JsonMembers(members, i + 1,
             Append(acc, [id |-> members[i].id,
                          val |-> members[LastIndexFrom(members, members[i].id, Len(members))].val]))

JsonLoad(text) ==
    [properties |-> text.properties,
     general_items |-> JsonMembers(text.general_items, 1, <<>>)]

\* dict.get(k, None)
Get(d, k) == IF HasKey(d, k) THEN d[IndexOf(d, k)].val ELSE None

-----------------------------------------------------------------------------
(* ConfigItemTemplate._deserialize_obj *)

\* mutant: a direct entity is reconfigured with whatever was found, None included
DeserializeObjAlwaysReconfig(d, file_id, item_id, tmpl, json_obj, bad) ==
    LET slot == tmpl.target.slot
        c == [file_id |-> file_id, item_id |-> item_id, slot |-> slot,
              json_obj |-> json_obj, args |-> tmpl.default_args]
    IN  IF tmpl.target.kind = "ConfigTarget"
        THEN LET w == IF d[slot] # None THEN 1 ELSE 0
                 call == <<c @@ [kind |-> "factory"]>>
             IN  IF bad = slot
                 THEN [dest |-> d, err |-> "factory raised", calls |-> call, warnings |-> w]
                 ELSE [dest |-> [d EXCEPT ![slot] =
                                    config_deserialize(item_id, json_obj, tmpl.default_args)],
                       err |-> "", calls |-> call, warnings |-> w]
        ELSE LET call == <<c @@ [kind |-> "reconfig"]>>
             IN  IF bad = slot
                 THEN [dest |-> d, err |-> "reconfig raised", calls |-> call, warnings |-> 0]
                 ELSE [dest |-> [d EXCEPT ![slot] =
                                    IF json_obj # None THEN Obj(json_obj.v) ELSE Obj(0)],
                       err |-> "", calls |-> call, warnings |-> 0]

\* mutant: a destination that holds a value keeps it, with the warning
DeserializeObjKeepExisting(d, file_id, item_id, tmpl, json_obj, bad) ==
    LET slot == tmpl.target.slot
        c == [file_id |-> file_id, item_id |-> item_id, slot |-> slot,
              json_obj |-> json_obj, args |-> tmpl.default_args]
    IN  IF tmpl.target.kind = "ConfigTarget"
        THEN LET w == IF d[slot] # None THEN 1 ELSE 0
                 call == <<c @@ [kind |-> "factory"]>>
             IN  IF bad = slot
                 THEN [dest |-> d, err |-> "factory raised", calls |-> call, warnings |-> w]
                 ELSE [dest |-> IF d[slot] # None THEN d
                                ELSE [d EXCEPT ![slot] =
                                        config_deserialize(item_id, json_obj, tmpl.default_args)],
                       err |-> "", calls |-> call, warnings |-> w]
        ELSE IF json_obj # None
        THEN LET call == <<c @@ [kind |-> "reconfig"]>>
             IN  IF bad = slot
                 THEN [dest |-> d, err |-> "reconfig raised", calls |-> call, warnings |-> 0]
                 ELSE [dest |-> [d EXCEPT ![slot] =
                                    config_reconfig(d[slot], item_id, json_obj, tmpl.default_args)],
                       err |-> "", calls |-> call, warnings |-> 0]
        ELSE [dest |-> d, err |-> "", calls |-> <<>>, warnings |-> 0]

\* One item deserialized into the destinations d.  bad names the destination
\* whose callbacks raise during this call.
DeserializeObj(d, file_id, item_id, tmpl, json_obj, bad) ==
    LET slot == tmpl.target.slot
        c == [file_id |-> file_id, item_id |-> item_id, slot |-> slot,
              json_obj |-> json_obj, args |-> tmpl.default_args]
    IN  IF tmpl.target.kind = "ConfigTarget"
        THEN LET w == IF d[slot] # None THEN 1 ELSE 0
                 call == <<c @@ [kind |-> "factory"]>>
             IN  IF bad = slot
                 THEN [dest |-> d, err |-> "factory raised", calls |-> call, warnings |-> w]
                 ELSE [dest |-> [d EXCEPT ![slot] =
                                    config_deserialize(item_id, json_obj, tmpl.default_args)],
                       err |-> "", calls |-> call, warnings |-> w]
        ELSE IF json_obj # None
        THEN LET call == <<c @@ [kind |-> "reconfig"]>>
             IN  IF bad = slot
                 THEN [dest |-> d, err |-> "reconfig raised", calls |-> call, warnings |-> 0]
                 ELSE [dest |-> [d EXCEPT ![slot] =
                                    config_reconfig(d[slot], item_id, json_obj, tmpl.default_args)],
                       err |-> "", calls |-> call, warnings |-> 0]
        ELSE [dest |-> d, err |-> "", calls |-> <<>>, warnings |-> 0]

-----------------------------------------------------------------------------
(* ConfigManager._load_config_file *)

\* mutant: the i-th item takes the i-th member of the file, whatever its key
RECURSIVE LoadItemsByPosition(_, _, _, _, _, _)
LoadItemsByPosition(acc, file_id, item_templates, file_items, bad, i) ==
    IF i > Len(item_templates) \/ acc.err # "" THEN acc
    ELSE LET json_obj == IF ~file_items.present \/ i > Len(file_items.dict) THEN None
                         ELSE file_items.dict[i].val
             r == DeserializeObj(acc.dest, file_id, item_templates[i].id,
                                 item_templates[i].tmpl, json_obj, bad)
         IN  LoadItemsByPosition(
                 [dest |-> r.dest, err |-> r.err, calls |-> acc.calls \o r.calls,
                  touched |-> acc.touched, warnings |-> acc.warnings + r.warnings],
                 file_id, item_templates, file_items, bad, i + 1)

\* mutant: a callback's failure is kept for the end and the next items are
\* still deserialized
RECURSIVE LoadItemsContinue(_, _, _, _, _, _)
LoadItemsContinue(acc, file_id, item_templates, file_items, bad, i) ==
    IF i > Len(item_templates) THEN acc
    ELSE LET json_obj == IF ~file_items.present THEN None
                         ELSE Get(file_items.dict, item_templates[i].id)
             r == DeserializeObj(acc.dest, file_id, item_templates[i].id,
                                 item_templates[i].tmpl, json_obj, bad)
         IN  LoadItemsContinue(
                 [dest |-> r.dest, err |-> IF acc.err # "" THEN acc.err ELSE r.err,
                  calls |-> acc.calls \o r.calls,
                  touched |-> acc.touched, warnings |-> acc.warnings + r.warnings],
                 file_id, item_templates, file_items, bad, i + 1)

\* the loop over file_template.item_templates.items(): with the dict read from
\* the file (present), or passing None for every item (file absent)
RECURSIVE LoadItems(_, _, _, _, _, _)
LoadItems(acc, file_id, item_templates, file_items, bad, i) ==
    IF i > Len(item_templates) \/ acc.err # "" THEN acc
    ELSE LET json_obj == IF ~file_items.present THEN None
                         ELSE Get(file_items.dict, item_templates[i].id)
             r == DeserializeObj(acc.dest, file_id, item_templates[i].id,
                                 item_templates[i].tmpl, json_obj, bad)
         IN  LoadItems([dest |-> r.dest, err |-> r.err, calls |-> acc.calls \o r.calls,
                        touched |-> acc.touched, warnings |-> acc.warnings + r.warnings],
                       file_id, item_templates, file_items, bad, i + 1)

\* mutant: the defaults of an absent file are built before the required flag is
\* looked at
LoadConfigFileDefaultsFirst(acc, dsk, file_template, bad) ==
    LET path == file_template.file_path
        acc1 == [acc EXCEPT !.touched = @ \cup {path}]
    IN  IF dsk[path] = None
        THEN LET r == LoadItems(acc1, file_template.id, file_template.item_templates,
                                [present |-> FALSE, dict |-> <<>>], bad, 1)
             IN  IF file_template.file_required /\ r.err = ""
                 THEN [r EXCEPT !.err = "required file missing"]
                 ELSE r
        ELSE LET json_data == JsonLoad(dsk[path])
             IN  IF json_data.properties.id # file_template.id
                 THEN [acc1 EXCEPT !.err = "file id not matching"]
                 ELSE LoadItems(acc1, file_template.id, file_template.item_templates,
                                [present |-> TRUE, dict |-> json_data.general_items], bad, 1)

\* mutant: properties.id is compared after the items were loaded
LoadConfigFileIdAfterItems(acc, dsk, file_template, bad) ==
    LET path == file_template.file_path
        acc1 == [acc EXCEPT !.touched = @ \cup {path}]
    IN  IF dsk[path] = None
        THEN IF file_template.file_required
             THEN [acc1 EXCEPT !.err = "required file missing"]
             ELSE LoadItems(acc1, file_template.id, file_template.item_templates,
                            [present |-> FALSE, dict |-> <<>>], bad, 1)
        ELSE LET json_data == JsonLoad(dsk[path])
                 r == LoadItems(acc1, file_template.id, file_template.item_templates,
                                [present |-> TRUE, dict |-> json_data.general_items], bad, 1)
             IN  IF json_data.properties.id # file_template.id /\ r.err = ""
                 THEN [r EXCEPT !.err = "file id not matching"]
                 ELSE r

\* acc carries the destinations, the callbacks invoked, the paths touched and
\* the warnings of the call so far; dsk is the file system
LoadConfigFile(acc, dsk, file_template, bad) ==
    LET path == file_template.file_path
        acc1 == [acc EXCEPT !.touched = @ \cup {path}]
    IN  IF dsk[path] = None
        THEN IF file_template.file_required
             THEN [acc1 EXCEPT !.err = "required file missing"]
             ELSE LoadItems(acc1, file_template.id, file_template.item_templates,
                            [present |-> FALSE, dict |-> <<>>], bad, 1)
        ELSE LET json_data == JsonLoad(dsk[path])
             IN  IF json_data.properties.id # file_template.id
                 THEN [acc1 EXCEPT !.err = "file id not matching"]
                 ELSE LoadItems(acc1, file_template.id, file_template.item_templates,
                                [present |-> TRUE, dict |-> json_data.general_items], bad, 1)

\* mutant: the guard looks at the layout instead of the flag
NotFinalizedByLayout == ~finalized /\ ~FinalizeOk(file_templates)

\* if not self._finalized: raise, the first statement of every load and save call
NotFinalized == ~finalized

StartLoad(d) == [dest |-> d, err |-> "", calls |-> <<>>, touched |-> {}, warnings |-> 0]

\* for file_id, file_template in self._file_templates.items(): stops at the
\* first file whose load raises
RECURSIVE LoadConfigs(_, _, _, _, _)
LoadConfigs(acc, dsk, fts, bad, i) ==
    IF i > Len(fts) \/ acc.err # "" THEN acc
    ELSE LoadConfigs(LoadConfigFile(acc, dsk, fts[i], bad), dsk, fts, bad, i + 1)

LoadResult(op, file_id, r) ==
    [Call(op, file_id, r.err) EXCEPT !.calls = r.calls, !.touched = r.touched,
                                     !.warnings = r.warnings]

load_configs(bad) ==
    /\ made.run < MaxRun
    /\ IF NotFinalized
       THEN /\ last' = Call("load_configs", None, "not finalized")
            /\ dest' = dest
       ELSE LET r == LoadConfigs(StartLoad(dest), disk, file_templates, bad, 1)
            IN  /\ last' = LoadResult("load_configs", None, r)
                /\ dest' = r.dest
    /\ made' = [made EXCEPT !.run = @ + 1]
    /\ UNCHANGED <<file_templates, finalized, disk>>

\* mutant: the template is fetched with setdefault, which registers an unknown id
load_config_file_SetDefault(file_id, bad) ==
    /\ made.run < MaxRun
    /\ IF NotFinalized
       THEN /\ last' = Call("load_config_file", file_id, "not finalized")
            /\ dest' = dest
            /\ file_templates' = file_templates
       ELSE IF ~HasKey(file_templates, file_id)
       THEN /\ last' = Call("load_config_file", file_id, "KeyError")
            /\ dest' = dest
            /\ file_templates' = SetDefault(file_templates, file_id,
                                            ConfigFileTemplate(file_id, None, FALSE, <<>>))
       ELSE LET r == LoadConfigFile(StartLoad(dest), disk,
                                    file_templates[IndexOf(file_templates, file_id)], bad)
            IN  /\ last' = LoadResult("load_config_file", file_id, r)
                /\ dest' = r.dest
                /\ file_templates' = file_templates
    /\ made' = [made EXCEPT !.run = @ + 1]
    /\ UNCHANGED <<finalized, disk>>

load_config_file(file_id, bad) ==
    /\ made.run < MaxRun
    /\ IF NotFinalized
       THEN /\ last' = Call("load_config_file", file_id, "not finalized")
            /\ dest' = dest
       ELSE IF ~HasKey(file_templates, file_id)
       THEN /\ last' = Call("load_config_file", file_id, "KeyError")
            /\ dest' = dest
       ELSE LET r == LoadConfigFile(StartLoad(dest), disk,
                                    file_templates[IndexOf(file_templates, file_id)], bad)
            IN  /\ last' = LoadResult("load_config_file", file_id, r)
                /\ dest' = r.dest
    /\ made' = [made EXCEPT !.run = @ + 1]
    /\ UNCHANGED <<file_templates, finalized, disk>>

-----------------------------------------------------------------------------
(* ConfigItemTemplate._serialize_obj *)

\* mutant: a target whose owner holds nothing is serialized as null
SerializeObjNullForMissing(d, file_id, item_id, tmpl, bad) ==
    LET slot == tmpl.target.slot
        call == <<[kind |-> "serialize", file_id |-> file_id, item_id |-> item_id,
                   slot |-> slot, json_obj |-> None, args |-> <<>>]>>
    IN  IF tmpl.target.kind = "ConfigTarget" /\ d[slot] = None
        THEN [val |-> None, err |-> "", calls |-> <<>>]
        ELSE IF d[slot].tag = "plain"
        THEN [val |-> None, err |-> "not serializable", calls |-> <<>>]
        ELSE IF bad = slot
        THEN [val |-> None, err |-> "serialize raised", calls |-> call]
        ELSE [val |-> config_serialize(d[slot], item_id), err |-> "", calls |-> call]

\* the JSON form of one item, read from the destinations d
SerializeObj(d, file_id, item_id, tmpl, bad) ==
    LET slot == tmpl.target.slot
        call == <<[kind |-> "serialize", file_id |-> file_id, item_id |-> item_id,
                   slot |-> slot, json_obj |-> None, args |-> <<>>]>>
    IN  IF tmpl.target.kind = "ConfigTarget" /\ d[slot] = None
        THEN [val |-> None, err |-> "non existent object", calls |-> <<>>]
        ELSE IF d[slot].tag = "plain"
        THEN [val |-> None, err |-> "not serializable", calls |-> <<>>]
        ELSE IF bad = slot
        THEN [val |-> None, err |-> "serialize raised", calls |-> call]
        ELSE [val |-> config_serialize(d[slot], item_id), err |-> "", calls |-> call]

-----------------------------------------------------------------------------
(* ConfigManager._save_config_file *)

\* the loop filling json_items: stops at the first item whose serialization raises
RECURSIVE SaveItems(_, _, _, _, _, _)
SaveItems(acc, d, file_id, item_templates, bad, i) ==
    IF i > Len(item_templates) \/ acc.err # "" THEN acc
    ELSE LET r == SerializeObj(d, file_id, item_templates[i].id, item_templates[i].tmpl, bad)
         IN  SaveItems([json_items |-> IF r.err = ""
                                       THEN Append(acc.json_items,
                                                   [id |-> item_templates[i].id, val |-> r.val])
                                       ELSE acc.json_items,
                        err |-> r.err, calls |-> acc.calls \o r.calls],
                       d, file_id, item_templates, bad, i + 1)

\* mutant: the file is opened for writing before the items are serialized, so
\* a failing save leaves it empty
SaveConfigFileOpenFirst(acc, d, file_template, bad) ==
    LET r == SaveItems([json_items |-> <<>>, err |-> "", calls |-> <<>>], d,
                       file_template.id, file_template.item_templates, bad, 1)
        json_data == [properties |-> [id |-> file_template.id],
                      general_items |-> r.json_items]
        empty == [properties |-> [id |-> None], general_items |-> <<>>]
    IN  IF r.err # ""
        THEN [disk |-> [acc.disk EXCEPT ![file_template.file_path] = empty],
              err |-> r.err, calls |-> acc.calls \o r.calls,
              touched |-> acc.touched \cup {file_template.file_path}]
        ELSE [disk |-> [acc.disk EXCEPT ![file_template.file_path] = JsonDump(json_data)],
              err |-> "", calls |-> acc.calls \o r.calls,
              touched |-> acc.touched \cup {file_template.file_path}]

\* acc carries the file system, the callbacks invoked and the paths opened so far
SaveConfigFile(acc, d, file_template, bad) ==
    LET r == SaveItems([json_items |-> <<>>, err |-> "", calls |-> <<>>], d,
                       file_template.id, file_template.item_templates, bad, 1)
        json_data == [properties |-> [id |-> file_template.id],
                      general_items |-> r.json_items]
    IN  IF r.err # ""
        THEN [acc EXCEPT !.err = r.err, !.calls = @ \o r.calls]
        ELSE [disk |-> [acc.disk EXCEPT ![file_template.file_path] = JsonDump(json_data)],
              err |-> "", calls |-> acc.calls \o r.calls,
              touched |-> acc.touched \cup {file_template.file_path}]

StartSave(dsk) == [disk |-> dsk, err |-> "", calls |-> <<>>, touched |-> {}]

\* for file_id, file_template in self._file_templates.items(): stops at the
\* first file whose save raises
RECURSIVE SaveConfigs(_, _, _, _, _)
SaveConfigs(acc, d, fts, bad, i) ==
    IF i > Len(fts) \/ acc.err # "" THEN acc
    ELSE SaveConfigs(SaveConfigFile(acc, d, fts[i], bad), d, fts, bad, i + 1)

SaveResult(op, file_id, r) ==
    [Call(op, file_id, r.err) EXCEPT !.calls = r.calls, !.touched = r.touched]

save_configs(bad) ==
    /\ made.run < MaxRun
    /\ IF NotFinalized
       THEN /\ last' = Call("save_configs", None, "not finalized")
            /\ disk' = disk
       ELSE LET r == SaveConfigs(StartSave(disk), dest, file_templates, bad, 1)
            IN  /\ last' = SaveResult("save_configs", None, r)
                /\ disk' = r.disk
    /\ made' = [made EXCEPT !.run = @ + 1]
    /\ UNCHANGED <<file_templates, finalized, dest>>

save_config_file(file_id, bad) ==
    /\ made.run < MaxRun
    /\ IF NotFinalized
       THEN /\ last' = Call("save_config_file", file_id, "not finalized")
            /\ disk' = disk
       ELSE IF ~HasKey(file_templates, file_id)
       THEN /\ last' = Call("save_config_file", file_id, "KeyError")
            /\ disk' = disk
       ELSE LET r == SaveConfigFile(StartSave(disk), dest,
                                    file_templates[IndexOf(file_templates, file_id)], bad)
            IN  /\ last' = SaveResult("save_config_file", file_id, r)
                /\ disk' = r.disk
    /\ made' = [made EXCEPT !.run = @ + 1]
    /\ UNCHANGED <<file_templates, finalized, dest>>

-----------------------------------------------------------------------------
(* The world around the manager *)

\* the application assigns objects to owners' attributes or keys, or changes
\* the state of a direct entity: one destination, or every target at once
AppWrites == {{s} : s \in Slots} \cup {TargetSlots}

AppSet(slots, n) ==
    /\ made.env < MaxEnv
    /\ dest' = [s \in Slots |-> IF s \in slots THEN Obj(n) ELSE dest[s]]
    /\ last' = NoCall
    /\ made' = [made EXCEPT !.env = @ + 1]
    /\ UNCHANGED <<file_templates, finalized, disk>>

\* the application stores, under a target's name, an object that is not
\* I_ConfigSerializable
AppSetPlain(slot) ==
    /\ made.env < MaxEnv
    /\ dest' = [dest EXCEPT ![slot] = Plain]
    /\ last' = NoCall
    /\ made' = [made EXCEPT !.env = @ + 1]
    /\ UNCHANGED <<file_templates, finalized, disk>>

\* a file as an editor leaves it: written for file_id, with a member for item
\* "1", none for item "v", and a member "zz" that no template registers
EditedText(file_id) ==
    [properties |-> [id |-> file_id],
     general_items |-> <<[id |-> StrId("1"), val |-> Json(MaxVal)],
                         [id |-> StrId("zz"), val |-> Json(0)]>>]

EditFile(path, file_id) ==
    /\ made.env < MaxEnv
    /\ disk' = [disk EXCEPT ![path] = EditedText(file_id)]
    /\ last' = NoCall
    /\ made' = [made EXCEPT !.env = @ + 1]
    /\ UNCHANGED <<file_templates, finalized, dest>>

-----------------------------------------------------------------------------

Init ==
    /\ file_templates = <<>>
    /\ finalized = FALSE
    /\ dest = [s \in Slots |-> IF s \in EntitySlots THEN Obj(0) ELSE None]
    /\ disk = [p \in Paths |-> None]
    /\ last = NoCall
    /\ made = [build |-> 0, run |-> 0, env |-> 0]

Next ==
    \/ \E f \in FILE_ID, r \in BOOLEAN :
           \E p \in CallerPaths(file_templates, f) : add_file_path(f, p, r)
    \/ \E f \in FILE_ID, items \in ItemBatches : add_items(f, items)
    \/ finalize_layout
    \/ \E bad \in Faults : load_configs(bad)
    \/ \E f \in FILE_ID, bad \in Faults : load_config_file(f, bad)
    \/ \E bad \in Faults : save_configs(bad)
    \/ \E f \in FILE_ID, bad \in Faults : save_config_file(f, bad)
    \/ \E slots \in AppWrites, n \in Values \ {0} : AppSet(slots, n)
    \/ \E s \in TargetSlots : AppSetPlain(s)
    \/ \E p \in Paths, f \in FILE_ID : EditFile(p, f)

Spec == Init /\ [][Next]_vars

\* the build phase alone: the registration calls and finalize_layout
NextBuild ==
    \/ \E f \in FILE_ID, r \in BOOLEAN :
           \E p \in CallerPaths(file_templates, f) : add_file_path(f, p, r)
    \/ \E f \in FILE_ID, items \in ItemBatches : add_items(f, items)
    \/ finalize_layout

SpecBuild == Init /\ [][NextBuild]_vars

-----------------------------------------------------------------------------
(* Vocabulary of the properties *)

RegOps == {"add_file_path", "add_items"}
LoadOps == {"load_configs", "load_config_file"}
SaveOps == {"save_configs", "save_config_file"}

\* the registered file templates, as a set
Templates == {file_templates[i] : i \in 1..Len(file_templates)}
AllPathsSet == \A t \in Templates : t.file_path # None

\* the step is a load or save call
RunStep == made'.run # made.run

\* the template registered under file_id, and its items
FileOf(file_id) == file_templates[IndexOf(file_templates, file_id)]
ItemsOf(file_id) == {FileOf(file_id).item_templates[i] :
                        i \in 1..Len(FileOf(file_id).item_templates)}
IsTarget(item) == item.tmpl.target.kind = "ConfigTarget"
SlotOf(item) == item.tmpl.target.slot

\* the callbacks the most recent call of the next state invoked
NewCalls == {last'.calls[i] : i \in 1..Len(last'.calls)}

\* the destinations bound to an item of a file registered before position k
BoundBefore(k) ==
    UNION {{SlotOf(file_templates[i].item_templates[j]) :
               j \in 1..Len(file_templates[i].item_templates)} : i \in 1..(k - 1)}

-----------------------------------------------------------------------------
(* C1 *)

\* C1: in every reachable state, whatever calls led to it and whether they
\* failed or not, a true finalized flag implies that every registered file
\* template has a non-null path.
C1_FinalizedImpliesPaths ==
    finalized => \A i \in 1..Len(file_templates) : file_templates[i].file_path # None

\* finalized, with two registered files, right after a call that failed
C1_Witness ==
    /\ finalized
    /\ Len(file_templates) = 2
    /\ last.op \in LoadOps \cup SaveOps
    /\ last.err # ""

-----------------------------------------------------------------------------
(* C2 *)

\* C2: finalize_layout succeeds, and sets finalized, exactly when every
\* registered file template has a path; when it fails it reports exactly the
\* registered file ids without a path, all of them, and finalized is not true.
C2_FinalizeIffComplete ==
    last.op = "finalize_layout" =>
        LET missing == {f \in FILE_ID :
                          \E i \in 1..Len(file_templates) :
                              /\ file_templates[i].id = f
                              /\ file_templates[i].file_path = None}
        IN  /\ (last.err = "") <=> (missing = {})
            /\ (last.err = "") => finalized
            /\ (last.err # "") => (last.reported = missing /\ ~finalized)

\* a failed finalize_layout that reports two files at once
C2_Witness ==
    /\ last.op = "finalize_layout"
    /\ last.err # ""
    /\ Cardinality(last.reported) = 2

-----------------------------------------------------------------------------
(* C3 *)

\* C3: a registration call sets finalized to false, also after a successful
\* finalize_layout and when every file still has a path; the flag becomes true
\* again only by a successful finalize_layout; and every load or save call made
\* while it is false fails.
C3_RegistrationResets ==
    [][ /\ (made'.build # made.build) => ~finalized'
        /\ (~finalized /\ finalized') => (last'.op = "finalize_layout" /\ last'.err = "")
        /\ (RunStep /\ ~finalized) => (last'.op \in LoadOps \cup SaveOps /\ last'.err # "")
      ]_vars

\* a registration made on a finalized manager left every file with a path and
\* the flag false
C3_Witness ==
    /\ last.op \in RegOps
    /\ last.was_finalized
    /\ ~finalized
    /\ file_templates # <<>>
    /\ AllPathsSet

-----------------------------------------------------------------------------
(* C4 *)

\* C4: a load or save call made while finalized is false fails before touching
\* anything: no factory, reconfigure or serialize call, no path looked up or
\* opened, every destination and every file as before.
C4_NotFinalizedTouchesNothing ==
    [][ (RunStep /\ ~finalized) =>
            /\ last'.op \in LoadOps \cup SaveOps
            /\ last'.err = "not finalized"
            /\ last'.calls = <<>>
            /\ last'.touched = {}
            /\ dest' = dest
            /\ disk' = disk
      ]_vars

\* a load refused on a manager whose files all have a path and items to load
C4_Witness ==
    /\ last.op \in LoadOps
    /\ last.err = "not finalized"
    /\ AllPathsSet
    /\ \E t \in Templates : Len(t.item_templates) > 0

-----------------------------------------------------------------------------
(* C5 *)

\* a successful save_config_file of file_id immediately followed by a
\* successful load_config_file of the same file, all its items being targets
SaveThenLoad ==
    /\ last.op = "save_config_file"
    /\ last.err = ""
    /\ RunStep
    /\ last'.op = "load_config_file"
    /\ last'.file_id = last.file_id
    /\ last'.err = ""
    /\ ItemsOf(last.file_id) # {}
    /\ \A item \in ItemsOf(last.file_id) : IsTarget(item)

\* C5: saving a file whose items are all targets holding a value and loading
\* it back leaves every target destination with the value it held before the
\* save, whether the item ids are strings or integers.
C5_RoundTrip ==
    [][ SaveThenLoad =>
            \A item \in ItemsOf(last.file_id) :
                dest'[item.tmpl.target.slot] = dest[item.tmpl.target.slot]
      ]_vars

\* C5, for the files whose item ids are all strings: the round trip restores
\* every target destination.
C5_RoundTripStringIds ==
    [][ (SaveThenLoad /\ \A item \in ItemsOf(last.file_id) : item.id.tag = "str") =>
            \A item \in ItemsOf(last.file_id) :
                dest'[item.tmpl.target.slot] = dest[item.tmpl.target.slot]
      ]_vars

\* a file with two targets under string ids was saved and loaded back, and the
\* saved values were not the factory defaults
C5_WitnessStringIds ==
    /\ last.op = "load_config_file"
    /\ last.err = ""
    /\ finalized
    /\ HasKey(file_templates, last.file_id)
    /\ Cardinality(ItemsOf(last.file_id)) = 2
    /\ \A item \in ItemsOf(last.file_id) : IsTarget(item) /\ item.id.tag = "str"
    /\ \A c \in {last.calls[i] : i \in 1..Len(last.calls)} : c.json_obj # None
    /\ dest["D.x"] = Obj(MaxVal)

-----------------------------------------------------------------------------
(* C6 *)

\* the step is a load call that failed on an absent, required file
RequiredMissing ==
    /\ RunStep
    /\ last'.op \in LoadOps
    /\ last'.err = "required file missing"

\* C6 as stated: such a call, load_configs or load_config_file, leaves every
\* bound destination as it was before the call.
C6_RequiredMissingChangesNothing ==
    [][ RequiredMissing => dest' = dest ]_vars

\* position of the first registered file that is required and absent on disk
FirstRequiredMissing ==
    CHOOSE k \in 1..Len(file_templates) :
        /\ file_templates[k].file_required /\ disk[file_templates[k].file_path] = None
        /\ \A i \in 1..(k - 1) :
               ~(file_templates[i].file_required /\ disk[file_templates[i].file_path] = None)

\* C6, amended: load_config_file failing on its absent, required file leaves
\* every destination as before the call; load_configs failing so invokes no
\* callback for the missing file and changes no destination other than those
\* bound to items of the files registered before it, which it loaded first.
C6_RequiredMissingKeepsRest ==
    [][ RequiredMissing =>
            /\ (last'.op = "load_config_file") => (dest' = dest /\ last'.calls = <<>>)
            /\ (last'.op = "load_configs") =>
                   /\ \A c \in NewCalls : c.file_id # file_templates[FirstRequiredMissing].id
                   /\ \A s \in Slots :
                          dest'[s] # dest[s] => s \in BoundBefore(FirstRequiredMissing)
      ]_vars

\* load_configs built the defaults of a first file and then failed on a
\* second, required, absent one
C6_Witness ==
    /\ last.op = "load_configs"
    /\ last.err = "required file missing"
    /\ last.calls # <<>>
    /\ dest["D.x"] # None

-----------------------------------------------------------------------------
(* C7 *)

\* the file at the path of template t is present and written for another id
Mismatched(t) == disk[t.file_path] # None /\ disk[t.file_path].properties.id # t.id

\* position of the first registered file whose file on disk has another id
FirstMismatched ==
    CHOOSE k \in 1..Len(file_templates) :
        /\ Mismatched(file_templates[k])
        /\ \A i \in 1..(k - 1) : ~Mismatched(file_templates[i])

\* C7: loading a present file whose properties.id differs from the id it is
\* registered under fails before any of its items is deserialized: no factory
\* or reconfigure call is made for its items and loading it changes no
\* destination (load_config_file changes none at all; in load_configs only the
\* files loaded before it have acted).
C7_IdMismatchBeforeItems ==
    [][ (RunStep /\ last'.op \in LoadOps /\ last'.was_finalized) =>
            /\ (/\ last'.op = "load_config_file"
                /\ HasKey(file_templates, last'.file_id)
                /\ Mismatched(FileOf(last'.file_id)))
               => /\ last'.err = "file id not matching"
                  /\ last'.calls = <<>>
                  /\ dest' = dest
            /\ (last'.op = "load_configs" /\ last'.err = "file id not matching")
               => /\ \A c \in NewCalls : c.file_id # file_templates[FirstMismatched].id
                  /\ \A s \in Slots : dest'[s] # dest[s] => s \in BoundBefore(FirstMismatched)
            /\ (/\ last'.op = "load_configs"
                /\ \E t \in Templates : Mismatched(t))
               => last'.err # ""
      ]_vars

\* a file with items to load was refused for its id
C7_Witness ==
    /\ last.op = "load_config_file"
    /\ last.err = "file id not matching"
    /\ ItemsOf(last.file_id) # {}

-----------------------------------------------------------------------------
(* C8 *)

\* the file of template t is absent on disk and not required
AbsentOptional(t) == disk[t.file_path] = None /\ ~t.file_required

\* the callbacks the call of this step made for the items of template t
CallsFor(t) == {i \in 1..Len(last'.calls) : last'.calls[i].file_id = t.id}
CallsForItem(t, item) == {i \in CallsFor(t) : last'.calls[i].item_id = item.id}

\* the items of t, as a set, and the last item of t bound to destination s
ItemSet(t) == {t.item_templates[j] : j \in 1..Len(t.item_templates)}
LastBound(t, s) ==
    t.item_templates[CHOOSE j \in 1..Len(t.item_templates) :
                        /\ SlotOf(t.item_templates[j]) = s
                        /\ \A k \in (j + 1)..Len(t.item_templates) :
                               SlotOf(t.item_templates[k]) # s]

\* every callback made for t is a factory call with JSON value none and the
\* default arguments of a target item of t; no item is deserialized twice
OnlyDefaultFactoryCalls(t) ==
    /\ \A i \in CallsFor(t) :
           /\ last'.calls[i].kind = "factory"
           /\ last'.calls[i].json_obj = None
           /\ \E item \in ItemSet(t) :
                  /\ IsTarget(item)
                  /\ last'.calls[i].item_id = item.id
                  /\ last'.calls[i].slot = SlotOf(item)
                  /\ last'.calls[i].args = item.tmpl.default_args
    /\ \A item \in ItemSet(t) : Cardinality(CallsForItem(t, item)) <= 1

\* every target item of t had its factory called exactly once
EveryTargetOnce(t) ==
    \A item \in ItemSet(t) : IsTarget(item) => Cardinality(CallsForItem(t, item)) = 1

\* C8: loading an absent, non-required file calls, for every item bound to a
\* target, the target's factory exactly once with JSON value none and the
\* template's default arguments and stores the result at the target; it never
\* calls the reconfigure operation of a direct entity, whose state stays as it
\* was.  (A factory that raises ends the load at its item.)
C8_AbsentOptionalBuildsDefaults ==
    [][ (RunStep /\ last'.op \in LoadOps /\ last'.was_finalized) =>
            /\ (/\ last'.op = "load_config_file"
                /\ HasKey(file_templates, last'.file_id)
                /\ AbsentOptional(FileOf(last'.file_id)))
               => LET t == FileOf(last'.file_id)
                  IN  /\ OnlyDefaultFactoryCalls(t)
                      /\ \A s \in EntitySlots : dest'[s] = dest[s]
                      /\ last'.err \in {"", "factory raised"}
                      /\ (last'.err = "") =>
                             /\ EveryTargetOnce(t)
                             /\ \A item \in ItemSet(t) : IsTarget(item) =>
                                    dest'[SlotOf(item)] =
                                        LET it == LastBound(t, SlotOf(item))
                                        IN  IF Len(it.tmpl.default_args) > 0
                                            THEN Obj(it.tmpl.default_args[1])
                                            ELSE Obj(0)
            /\ (last'.op = "load_configs") =>
                   \A t \in Templates : AbsentOptional(t) =>
                       /\ OnlyDefaultFactoryCalls(t)
                       /\ (last'.err = "") => EveryTargetOnce(t)
      ]_vars

\* an absent, optional file with a target and a direct entity was loaded: one
\* factory call, the default stored, the entity not called
C8_Witness ==
    /\ last.op = "load_config_file"
    /\ last.err = ""
    /\ HasKey(file_templates, last.file_id)
    /\ disk[FileOf(last.file_id).file_path] = None
    /\ \E item \in ItemsOf(last.file_id) : IsTarget(item)
    /\ \E item \in ItemsOf(last.file_id) : ~IsTarget(item)
    /\ Len(last.calls) = 1
    /\ last.calls[1].kind = "factory"

-----------------------------------------------------------------------------
(* C9 *)

\* the file of template t is present on disk and written for t's id
PresentMatching(t) == disk[t.file_path] # None /\ disk[t.file_path].properties.id = t.id

\* the JSON value the file of t holds for an item: the value of the last
\* member of general_items whose key equals the item id, none without one
EntryFor(t, item) ==
    LET members == disk[t.file_path].general_items
        idx == {i \in 1..Len(members) : members[i].id = item.id}
    IN  IF idx = {} THEN None
        ELSE members[CHOOSE i \in idx : \A j \in idx : j <= i].val

\* every callback made for t is made for a registered item of t, with the
\* value its entry holds (none without an entry), by a factory call for a
\* target and a reconfigure call for an entity; no item is deserialized twice
OnlyEntryCalls(t) ==
    /\ \A i \in CallsFor(t) :
           \E item \in ItemSet(t) :
               /\ last'.calls[i].item_id = item.id
               /\ last'.calls[i].slot = SlotOf(item)
               /\ last'.calls[i].json_obj = EntryFor(t, item)
               /\ last'.calls[i].args = item.tmpl.default_args
               /\ last'.calls[i].kind = IF IsTarget(item) THEN "factory" ELSE "reconfig"
               /\ IsTarget(item) \/ EntryFor(t, item) # None
    /\ \A item \in ItemSet(t) : Cardinality(CallsForItem(t, item)) <= 1

\* every item of t was deserialized: one call, except for an entity without entry
EveryItemOnce(t) ==
    \A item \in ItemSet(t) :
        Cardinality(CallsForItem(t, item)) =
            IF IsTarget(item) \/ EntryFor(t, item) # None THEN 1 ELSE 0

\* the items of t that write destination s when t is loaded
Writers(t, s) ==
    {j \in 1..Len(t.item_templates) :
        /\ SlotOf(t.item_templates[j]) = s
        /\ IsTarget(t.item_templates[j]) \/ EntryFor(t, t.item_templates[j]) # None}

\* what destination s holds once every item of t was deserialized
LoadedValue(t, s) ==
    IF Writers(t, s) = {} THEN dest[s]
    ELSE LET it == t.item_templates[CHOOSE j \in Writers(t, s) : \A k \in Writers(t, s) : k <= j]
         IN  IF EntryFor(t, it) # None THEN Obj(EntryFor(t, it).v)
             ELSE IF Len(it.tmpl.default_args) > 0 THEN Obj(it.tmpl.default_args[1])
             ELSE Obj(0)

-----------------------------------------------------------------------------
(* C10 *)

\* the file written for template t is the document {properties: {id: t.id},
\* general_items: M}, M a mapping with one member per registered item of t,
\* under the item's id (in the string form JSON gives a key), holding what the
\* item's serialize operation returns, and no other member
SavedDocument(t) ==
    LET text == disk'[t.file_path]
        members == text.general_items
    IN  /\ text # None
        /\ text.properties.id = t.id
        /\ Len(members) = Len(t.item_templates)
        /\ \A i, j \in 1..Len(members) : members[i].id = members[j].id => i = j
        /\ \A item \in ItemSet(t) :
               \E i \in 1..Len(members) :
                   /\ members[i].id = JsonKey(item.id)
                   /\ members[i].val = Json(dest[SlotOf(item)].val)

\* the step is a successful save of the file of template t
SavedNow(t) ==
    /\ RunStep
    /\ last'.err = ""
    /\ \/ last'.op = "save_configs"
       \/ last'.op = "save_config_file" /\ last'.file_id = t.id

\* C10: after a successful save of a file the content at its path is exactly
\* that document, one member per registered item id and no others, whatever
\* the file held before.
C10_SaveWritesDocument ==
    [][ \A t \in Templates : SavedNow(t) => SavedDocument(t) ]_vars

\* C10, for the files whose registered item ids have pairwise different
\* string forms.
C10_SaveWritesDocumentDistinctKeys ==
    [][ \A t \in Templates :
            (/\ SavedNow(t)
             /\ \A a, b \in ItemSet(t) : JsonKey(a.id) = JsonKey(b.id) => a = b)
            => SavedDocument(t) ]_vars

\* a file that held a member no template registers was overwritten by a save
\* of two items
C10_WitnessDistinctKeys ==
    /\ last.op = "save_config_file"
    /\ last.err = ""
    /\ HasKey(file_templates, last.file_id)
    /\ Len(FileOf(last.file_id).item_templates) = 2
    /\ \A a, b \in ItemsOf(last.file_id) : JsonKey(a.id) = JsonKey(b.id) => a = b
    /\ \E p \in Paths : disk[p] # None /\ disk[p].general_items # <<>>

-----------------------------------------------------------------------------
(* C11 *)

\* the step is a call of one of the registration methods
BuildStep == made'.build # made.build

\* C11: a file template's path, once non-null, never changes, whatever call is
\* made: the template keeps its place, its id, its path and its required flag;
\* and an add_file_path call for a file id whose template has a path fails.
C11_PathSetOnce ==
    [][ /\ \A i \in 1..Len(file_templates) :
               file_templates[i].file_path # None =>
                   /\ Len(file_templates') >= i
                   /\ file_templates'[i].id = file_templates[i].id
                   /\ file_templates'[i].file_path = file_templates[i].file_path
                   /\ file_templates'[i].file_required = file_templates[i].file_required
        /\ (/\ BuildStep
            /\ last'.op = "add_file_path"
            /\ HasKey(file_templates, last'.file_id)
            /\ FileOf(last'.file_id).file_path # None)
           => last'.err = "path assigned more than once"
      ]_vars

\* a second add_file_path for a required file was refused; the file is still
\* required and at its path
C11_Witness ==
    /\ last.op = "add_file_path"
    /\ last.err = "path assigned more than once"
    /\ FileOf(last.file_id).file_required
    /\ FileOf(last.file_id).file_path = PathOf(last.file_id)

-----------------------------------------------------------------------------
(* C12 *)

\* the ids of the entries of a batch handed to add_items
BatchIds(items) == {items[k].id : k \in 1..Len(items)}

\* the item ids registered in the file file_id (none when it is not registered)
ItemIds(fts, file_id) ==
    IF HasKey(fts, file_id) THEN Keys(fts[IndexOf(fts, file_id)].item_templates) ELSE {}

\* C12: an add_items call never replaces a binding: every item registered
\* before the call, in whatever file, is bound to the same item template after
\* it; the call fails when its batch holds an id already registered in that
\* file; and it is refused as a duplicate only for an id registered in that
\* same file, so an id registered in another file is accepted.
C12_DuplicateKeepsBinding ==
    [][ (BuildStep /\ last'.op = "add_items") =>
        \A f \in {last'.file_id}, items \in ItemBatches :
            add_items(f, items) =>
                /\ \A i \in 1..Len(file_templates) :
                       /\ file_templates'[i].id = file_templates[i].id
                       /\ \A j \in 1..Len(file_templates[i].item_templates) :
                              file_templates'[i].item_templates[j] =
                                  file_templates[i].item_templates[j]
                /\ (BatchIds(items) \cap ItemIds(file_templates, f) # {}) => last'.err # ""
                /\ (last'.err = "item added multiple times")
                       => (BatchIds(items) \cap ItemIds(file_templates, f) # {})
      ]_vars

\* an add_items call was refused for an id the file already had, while another
\* file holds the same id under its own binding
C12_Witness ==
    /\ last.op = "add_items"
    /\ last.err = "item added multiple times"
    /\ Len(file_templates) = 2
    /\ Keys(file_templates[1].item_templates) \cap Keys(file_templates[2].item_templates) # {}

-----------------------------------------------------------------------------
(* C13 *)

\* the factory calls among the callbacks the call of this step invoked
FactoryCalls == {i \in 1..Len(last'.calls) : last'.calls[i].kind = "factory"}

\* the destination of callback i held a value when the callback was reached:
\* it did before the call, or an earlier item of this call stored one there
HeldValue(i) ==
    \/ dest[last'.calls[i].slot] # None
    \/ \E j \in 1..(i - 1) : last'.calls[j].slot = last'.calls[i].slot

\* callback i returned, and no later callback of the call wrote its destination
LastWriter(i) ==
    /\ i < Len(last'.calls) \/ last'.err = ""
    /\ \A j \in (i + 1)..Len(last'.calls) : last'.calls[j].slot # last'.calls[i].slot

\* C13: a load call emits exactly one warning for every target item it
\* deserializes while the destination holds a value, and none for an item
\* whose destination is absent; the value the factory produces replaces what
\* the destination held; with no callback raising, loading a file that is
\* absent and optional, or present with a matching id, succeeds whatever its
\* destinations hold, so that a successful load_config_file repeated at once
\* succeeds again, with a warning for every target item.
C13_OverwriteWarnsOnce ==
    [][ (RunStep /\ last'.op \in LoadOps) =>
            /\ last'.warnings = Cardinality({i \in FactoryCalls : HeldValue(i)})
            /\ \A i \in FactoryCalls : LastWriter(i) =>
                   dest'[last'.calls[i].slot] =
                       config_deserialize(last'.calls[i].item_id, last'.calls[i].json_obj,
                                          last'.calls[i].args)
            /\ \A f \in {last'.file_id} \cap FILE_ID :
                   (/\ last'.op = "load_config_file"
                    /\ finalized
                    /\ load_config_file(f, "none")
                    /\ HasKey(file_templates, f)
                    /\ AbsentOptional(FileOf(f)) \/ PresentMatching(FileOf(f)))
                   => /\ last'.err = ""
                      /\ (last.op = "load_config_file" /\ last.file_id = f /\ last.err = "")
                             => last'.warnings = Cardinality(FactoryCalls)
      ]_vars

\* a file with two targets was loaded twice in a row: the second load
\* succeeded, replaced both values and warned twice
C13_Witness ==
    /\ last.op = "load_config_file"
    /\ last.err = ""
    /\ made.run = 2
    /\ made.env = 0
    /\ last.warnings = 2
    /\ Len(last.calls) = 2
    /\ last.calls[1].slot # last.calls[2].slot

-----------------------------------------------------------------------------
(* C14 *)

\* the item is bound to a target whose owner holds nothing under the target's
\* name, or holds an object that cannot serialize itself
Missing(item) == IsTarget(item) /\ dest[SlotOf(item)] = None
NotSerializable(item) == IsTarget(item) /\ dest[SlotOf(item)] = Plain

\* the positions of the items of t at which a save stops: nothing to
\* serialize, or a serialize operation that raises (bad names its destination)
Blocked(t) ==
    {j \in 1..Len(t.item_templates) :
        Missing(t.item_templates[j]) \/ NotSerializable(t.item_templates[j])}
Raising(t, bad) ==
    {j \in 1..Len(t.item_templates) : SlotOf(t.item_templates[j]) = bad} \ Blocked(t)
FirstStop(t, bad) ==
    CHOOSE k \in Blocked(t) \cup Raising(t, bad) :
        \A j \in Blocked(t) \cup Raising(t, bad) : k <= j

\* the error the save of t ends with ("" when it writes the file)
SaveError(t, bad) ==
    IF Blocked(t) \cup Raising(t, bad) = {} THEN ""
    ELSE LET item == t.item_templates[FirstStop(t, bad)]
         IN  IF Missing(item) THEN "non existent object"
             ELSE IF NotSerializable(item) THEN "not serializable"
             ELSE "serialize raised"

\* C14: save_config_file of a registered file on a finalized layout serializes
\* the items in order and fails at the first item that cannot be serialized:
\* with a missing-object error for a target whose owner holds nothing under
\* the target's name, with a not-serializable error for a target whose value
\* lacks the serialize capability; a direct entity is never looked up, its
\* own serialize operation is called; with no such item and no serialize
\* operation raising the save succeeds.
C14_SaveFailsOnMissingObject ==
    [][ (RunStep /\ last'.op = "save_config_file" /\ finalized
             /\ HasKey(file_templates, last'.file_id)) =>
        \A bad \in Faults :
            save_config_file(last'.file_id, bad) =>
                LET t == FileOf(last'.file_id)
                    stops == Blocked(t) \cup Raising(t, bad)
                IN  /\ last'.err = SaveError(t, bad)
                    /\ Len(last'.calls) =
                           IF stops = {} THEN Len(t.item_templates)
                           ELSE IF FirstStop(t, bad) \in Blocked(t) THEN FirstStop(t, bad) - 1
                           ELSE FirstStop(t, bad)
                    /\ \A i \in 1..Len(last'.calls) :
                           /\ last'.calls[i].kind = "serialize"
                           /\ last'.calls[i].item_id = t.item_templates[i].id
                           /\ last'.calls[i].slot = SlotOf(t.item_templates[i])
      ]_vars

\* saved after finalize_layout and before any load: the direct entity was
\* serialized, then the target after it had nothing to serialize
C14_Witness ==
    /\ last.op = "save_config_file"
    /\ last.err = "non existent object"
    /\ made.run = 1
    /\ made.env = 0
    /\ Len(last.calls) = 1
    /\ last.calls[1].slot \in EntitySlots

\* a save stopped at a value that lacks the serialize capability
C14_WitnessNotSerializable ==
    /\ last.op \in SaveOps
    /\ last.err = "not serializable"

-----------------------------------------------------------------------------
(* C15 *)

\* the step is a load call that a factory or a reconfigure operation ended
CallbackFailed ==
    /\ RunStep
    /\ last'.op \in LoadOps
    /\ last'.err \in {"factory raised", "reconfig raised"}

\* the callbacks of the call that returned and wrote destination s
Writes(s) == {i \in 1..(Len(last'.calls) - 1) : last'.calls[i].slot = s}

\* what callback i stored at its destination
Stored(i) ==
    IF last'.calls[i].kind = "factory"
    THEN config_deserialize(last'.calls[i].item_id, last'.calls[i].json_obj,
                            last'.calls[i].args)
    ELSE config_reconfig(dest[last'.calls[i].slot], last'.calls[i].item_id,
                         last'.calls[i].json_obj, last'.calls[i].args)

\* position of the file and of the item a callback was made for
FilePos(c) == IndexOf(file_templates, c.file_id)
ItemPos(c) == IndexOf(file_templates[FilePos(c)].item_templates, c.item_id)

\* C15: when a factory or a direct entity's reconfigure operation fails in a
\* load call, the call ends with that failure at once: the failing callback is
\* the last one made, the callbacks were made in registration order, the
\* destinations written by the items processed before it hold their newly
\* loaded values, and every other destination, those of the failing item, of
\* the items after it and of the files after it among them, is as it was.
C15_CallbackFailureStopsLoad ==
    [][ CallbackFailed =>
            LET n == Len(last'.calls)
            IN  /\ n > 0
                /\ last'.calls[n].kind =
                       IF last'.err = "factory raised" THEN "factory" ELSE "reconfig"
                /\ \A i, j \in 1..n : i < j =>
                       \/ FilePos(last'.calls[i]) < FilePos(last'.calls[j])
                       \/ /\ FilePos(last'.calls[i]) = FilePos(last'.calls[j])
                          /\ ItemPos(last'.calls[i]) < ItemPos(last'.calls[j])
                /\ \A s \in Slots :
                       dest'[s] = IF Writes(s) = {} THEN dest[s]
                                  ELSE Stored(CHOOSE i \in Writes(s) : \A j \in Writes(s) : j <= i)
      ]_vars

\* a load whose second factory failed: the first item's destination holds its
\* loaded value, the second's is still absent
C15_Witness ==
    /\ last.op \in LoadOps
    /\ last.err = "factory raised"
    /\ Len(last.calls) = 2
    /\ dest[last.calls[1].slot] # None
    /\ dest[last.calls[2].slot] = None

-----------------------------------------------------------------------------
(* C16 *)

\* C16: the registered file ids and each file's item ids never shrink; a step
\* that is no registration call (finalize_layout, a load, a save, successful
\* or failing) leaves the file templates, every path, required flag and item
\* binding, as they were; a load or save call leaves the finalized flag as it
\* was; the flag turns true only by a successful finalize_layout and false
\* only by a registration call.
C16_BuildStateFrame ==
    [][ /\ Len(file_templates') >= Len(file_templates)
        /\ \A i \in 1..Len(file_templates) :
               /\ file_templates'[i].id = file_templates[i].id
               /\ Keys(file_templates[i].item_templates)
                      \subseteq Keys(file_templates'[i].item_templates)
        /\ ~BuildStep => file_templates' = file_templates
        /\ RunStep => finalized' = finalized
        /\ (~finalized /\ finalized')
               => (last'.op = "finalize_layout" /\ last'.err = "" /\ ~BuildStep /\ ~RunStep)
        /\ (finalized /\ ~finalized') => (BuildStep /\ last'.op \in RegOps)
      ]_vars

\* a finalized layout of two files, one with items, right after a
\* load_configs that a factory ended
C16_Witness ==
    /\ finalized
    /\ last.op = "load_configs"
    /\ last.err = "factory raised"
    /\ Len(file_templates) = 2
    /\ \E t \in Templates : t.item_templates # <<>>

-----------------------------------------------------------------------------
(* C17 *)

\* the step is a finalize_layout call
FinalizeStep == ~BuildStep /\ ~RunStep /\ last'.op = "finalize_layout"

\* C17: a registration call that fails still sets finalized to false; a
\* failing add_items for a file id not registered before leaves a template
\* for it, with a null path; and as long as a template has a null path
\* finalize_layout fails, reports its file id and leaves finalized false,
\* while an add_file_path for that id succeeds and gives it its path.
C17_FailedRegistrationActs ==
    [][ /\ (BuildStep /\ last'.err # "") => ~finalized'
        /\ (/\ BuildStep
            /\ last'.op = "add_items"
            /\ last'.err # ""
            /\ ~HasKey(file_templates, last'.file_id))
           => /\ HasKey(file_templates', last'.file_id)
              /\ file_templates'[IndexOf(file_templates', last'.file_id)].file_path = None
        /\ FinalizeStep =>
               /\ \A t \in Templates : t.file_path = None =>
                      (last'.err # "" /\ t.id \in last'.reported /\ ~finalized')
               /\ \A t \in Templates : t.file_path # None => t.id \notin last'.reported
        /\ (/\ BuildStep
            /\ last'.op = "add_file_path"
            /\ HasKey(file_templates, last'.file_id)
            /\ FileOf(last'.file_id).file_path = None)
           => /\ last'.err = ""
              /\ file_templates'[IndexOf(file_templates', last'.file_id)].file_path # None
      ]_vars

\* finalize_layout failed and reported a file that only a rejected add_items
\* registered: its template holds the one entry accepted before the rejection
C17_Witness ==
    /\ last.op = "finalize_layout"
    /\ last.err # ""
    /\ \E t \in Templates :
           /\ t.id \in last.reported
           /\ Len(t.item_templates) = 1
    /\ Len(file_templates) = 1

-----------------------------------------------------------------------------
(* C18 *)

\* add_items rejects the entry: its id is among ids, or its shape is malformed
\* or unsupported
Rejected(ids, entry) ==
    \/ entry.id \in ids
    \/ entry.item_like.shape = "tuple" /\ ~entry.item_like.args_ok
    \/ entry.item_like.shape \notin {"ConfigItemTemplate", "bare", "tuple"}

\* C18: add_items registers the entries of its batch in iteration order up to
\* the first rejected one (duplicate id, malformed defaults, unsupported
\* shape): the call fails exactly when the batch holds a rejected entry, the
\* entries before it are registered after the items the file had, under their
\* ids with their targets and defaults, and the rejected entry and the entries
\* after it are not registered.
C18_AddItemsNotAtomic ==
    [][ (BuildStep /\ last'.op = "add_items") =>
        \A items \in ItemBatches :
            add_items(last'.file_id, items) =>
                LET f == last'.file_id
                    old == IF HasKey(file_templates, f) THEN FileOf(f).item_templates ELSE <<>>
                    new == file_templates'[IndexOf(file_templates', f)].item_templates
                    rej == {k \in 1..Len(items) : Rejected(Keys(old), items[k])}
                    n == IF rej = {} THEN Len(items)
                         ELSE (CHOOSE k \in rej : \A j \in rej : k <= j) - 1
                IN  /\ (last'.err # "") <=> (rej # {})
                    /\ Len(new) = Len(old) + n
                    /\ \A j \in 1..Len(old) : new[j] = old[j]
                    /\ \A k \in 1..n :
                           /\ new[Len(old) + k].id = items[k].id
                           /\ new[Len(old) + k].tmpl.target = items[k].item_like.target
                           /\ new[Len(old) + k].tmpl.default_args = items[k].item_like.args
      ]_vars

\* a batch of three was rejected at its second entry: the file holds the
\* first entry only
C18_Witness ==
    /\ last.op = "add_items"
    /\ last.err = "default args must be a list"
    /\ Keys(FileOf(last.file_id).item_templates) = {StrId("1")}

-----------------------------------------------------------------------------
(* C19 *)

\* the text a save of template t writes from the destinations as they are
WrittenText(t) ==
    JsonDump([properties |-> [id |-> t.id],
              general_items |->
                  [j \in 1..Len(t.item_templates) |->
                      [id |-> t.item_templates[j].id,
                       val |-> config_serialize(dest[SlotOf(t.item_templates[j])],
                                                t.item_templates[j].id)]]])

\* the positions of the files whose save fails
FailingFiles(bad) == {k \in 1..Len(file_templates) : SaveError(file_templates[k], bad) # ""}

\* C19: a save of one file that fails while serializing (missing object, not
\* serializable, a serialize operation raising) leaves the content at the
\* file's path, and every other file, exactly as before the call; save_configs
\* stopped by such a failure has written the files registered before the
\* failing one with their new content and has written neither the failing
\* file nor the files after it.
C19_SaveAllOrNothingPerFile ==
    [][ (RunStep /\ last'.op \in SaveOps /\ finalized) =>
            /\ (last'.op = "save_config_file" /\ last'.err # "") => disk' = disk
            /\ (last'.op = "save_configs") =>
                   \A bad \in Faults :
                       save_configs(bad) =>
                           LET n == IF FailingFiles(bad) = {} THEN Len(file_templates)
                                    ELSE (CHOOSE k \in FailingFiles(bad) :
                                              \A j \in FailingFiles(bad) : k <= j) - 1
                               written == {file_templates[i].file_path : i \in 1..n}
                           IN  /\ (last'.err # "") <=> (FailingFiles(bad) # {})
                               /\ (last'.err # "") =>
                                      last'.err = SaveError(file_templates[n + 1], bad)
                               /\ \A i \in 1..n :
                                      disk'[file_templates[i].file_path] =
                                          WrittenText(file_templates[i])
                               /\ \A p \in Paths \ written : disk'[p] = disk[p]
                               /\ last'.touched = written
      ]_vars

\* save_configs wrote its first file and failed on the second, whose file
\* still holds what an editor had left in it
C19_Witness ==
    /\ last.op = "save_configs"
    /\ last.err \in {"non existent object", "not serializable", "serialize raised"}
    /\ Len(file_templates) = 2
    /\ last.touched = {file_templates[1].file_path}
    /\ disk[file_templates[1].file_path] # None
    /\ disk[file_templates[2].file_path] # None
    /\ \E i \in 1..Len(disk[file_templates[2].file_path].general_items) :
           disk[file_templates[2].file_path].general_items[i].id = StrId("zz")

-----------------------------------------------------------------------------
(* C20 *)

\* every file other than file_id has a path
OthersHavePaths(fts, file_id) ==
    \A i \in 1..Len(fts) : fts[i].id # file_id => fts[i].file_path # None

\* the file templates after add_file_path(f, p, r) then add_items(f, items),
\* and after the two calls in the other order
PathThenItems(fts, f, p, r, items) == AddItems(AddFilePath(fts, f, p, r).fts, f, items).fts
ItemsThenPath(fts, f, p, r, items) == AddFilePath(AddItems(fts, f, items).fts, f, p, r).fts

\* C20: for one file id the order of add_file_path(f, p, r) and
\* add_items(f, items) does not matter: whichever call is made first, making
\* the other one next leaves the same file templates (path, required flag and
\* item bindings of f included) as the two calls made in the other order from
\* the same state; either call leaves finalized false; and a finalize_layout
\* after the two succeeds when every other file has a path.
C20_RegistrationOrder ==
    [][ BuildStep =>
            /\ ~finalized'
            /\ (last'.op = "add_file_path") =>
                   \A p \in Paths, r \in BOOLEAN :
                       add_file_path(last'.file_id, p, r) =>
                           \A items \in ItemBatches :
                               LET f == last'.file_id
                                   after == AddItems(file_templates', f, items).fts
                               IN  /\ after = ItemsThenPath(file_templates, f, p, r, items)
                                   /\ OthersHavePaths(file_templates, f) => FinalizeOk(after)
            /\ (last'.op = "add_items") =>
                   \A items \in ItemBatches :
                       add_items(last'.file_id, items) =>
                           \A p \in Paths, r \in BOOLEAN :
                               LET f == last'.file_id
                                   after == AddFilePath(file_templates', f, p, r).fts
                               IN  /\ after = PathThenItems(file_templates, f, p, r, items)
                                   /\ OthersHavePaths(file_templates, f) => FinalizeOk(after)
      ]_vars

\* a file got its path and then its items, beside another file that has its
\* path: the layout is ready to be finalized and not finalized
C20_Witness ==
    /\ last.op = "add_items"
    /\ last.err = ""
    /\ ~finalized
    /\ Len(file_templates) = 2
    /\ FileOf(last.file_id).file_path # None
    /\ Len(FileOf(last.file_id).item_templates) = 2
    /\ OthersHavePaths(file_templates, last.file_id)

====
